---------------------------- MODULE Spec2Model ----------------------------
(***************************************************************************)
(* Model of nemo/export/trt_llm/nemo_utils.py: the checkpoint resharding   *)
(* of model_to_trtllm_ckpt, its tensor splitter split, and the word-list   *)
(* encoder to_word_list_format.                                            *)
(*                                                                         *)
(* Representation.                                                         *)
(*   - A weight key is the sequence of its "."-separated tokens, each a    *)
(*     string: "transformer.layers.3.attention.qkv.weight.0.bin" is        *)
(*     <<"transformer","layers","3","attention","qkv","weight","0","bin">>.*)
(*     Numbers inside keys are decimal numerals (IntToStr / StrToInt), so  *)
(*     the string tests of the code (endswith, replace, split(".")[2])     *)
(*     act on text, not on structured fields.                              *)
(*   - A tensor is a record [shape, data]: shape <<n>> with data a         *)
(*     sequence of n integers (1-D), or shape <<r, c>> with data a         *)
(*     sequence of r rows of c integers (2-D).                             *)
(*   - The source mapping weights_dict is an insertion-ordered dict: a     *)
(*     sequence of <<key, tensor>> pairs with pairwise distinct keys, and  *)
(*     so is every per-rank output dict.                                   *)
(***************************************************************************)
EXTENDS Integers, Sequences, FiniteSets, TLC

VARIABLES
    pc,                     \* position in the operation being modelled
    \* ---- model_to_trtllm_ckpt: arguments and converter output
    tensor_parallel_size,
    pipeline_parallel_size,
    decoder_type,
    use_parallel_embedding,
    num_layers,             \* nemo_model_config['num_layers']
    weights_dict,           \* the shared source mapping
    \* ---- model_to_trtllm_ckpt: locals
    lm_head_weight,
    config,
    i,                      \* loop variable of "for i in range(world_size)"
    weights_dicts,
    model_configs,
    \* ---- split
    sp_v, sp_tp_size, sp_dim, sp_parts,
    \* ---- to_word_list_format
    word_dict, flat_ids, offsets, wl_result

vars == <<pc, tensor_parallel_size, pipeline_parallel_size, decoder_type,
          use_parallel_embedding, num_layers, weights_dict, lm_head_weight,
          config, i, weights_dicts, model_configs,
          sp_v, sp_tp_size, sp_dim, sp_parts,
          word_dict, flat_ids, offsets, wl_result>>

reshardVars == <<tensor_parallel_size, pipeline_parallel_size, decoder_type,
                 use_parallel_embedding, num_layers, weights_dict,
                 lm_head_weight, config, i, weights_dicts, model_configs>>
splitVars == <<sp_v, sp_tp_size, sp_dim, sp_parts>>
wordVars == <<word_dict, flat_ids, offsets, wl_result>>

---------------------------------------------------------------------------
(* Bounds of the model *)

MaxTp == 2          \* tensor_parallel_size ranges over 1..MaxTp
MaxPp == 2          \* pipeline_parallel_size ranges over 1..MaxPp
MaxLayers == 2      \* small layer counts 1..MaxLayers (plus the falcon count)
MaxVocab == 2       \* vocabulary rows 1..MaxVocab

(* Program constants *)

FalconOldArchLayers == 32   \* "False if num_layers == 32 else True"

---------------------------------------------------------------------------
(* Generic helpers *)

Max(a, b) == IF a >= b THEN a ELSE b
Min(a, b) == IF a <= b THEN a ELSE b

RECURSIVE Pow10(_)
Pow10(n) == IF n = 0 THEN 1 ELSE 10 * Pow10(n - 1)

Digit == <<"0", "1", "2", "3", "4", "5", "6", "7", "8", "9">>

\* str(n) for a natural number n
RECURSIVE IntToStr(_)
IntToStr(n) ==
    IF n < 10 THEN Digit[n + 1] ELSE IntToStr(n \div 10) \o Digit[(n % 10) + 1]

\* the numerals that can occur in a key of the model, tabulated:
\* Numerals[n + 1] = str(n)
Numerals == [m \in 1..(FalconOldArchLayers + MaxLayers + MaxTp + 11) |->
                IntToStr(m - 1)]
NumeralSet == {Numerals[m] : m \in DOMAIN Numerals}

IsNumeral(tok) == tok \in NumeralSet

\* int(tok); only applied to numerals
NumeralValue ==
    [tok \in NumeralSet |-> (CHOOSE m \in DOMAIN Numerals : Numerals[m] = tok) - 1]
StrToInt(tok) == NumeralValue[tok]

\* tok.endswith(str(t)) for a token tok: the non-numeral tokens of the
\* model end in a letter, a numeral ends with str(t) iff its low digits are t
TokenEndsWithInt(tok, t) ==
    /\ IsNumeral(tok)
    /\ Len(tok) >= Len(IntToStr(t))
    /\ StrToInt(tok) % Pow10(Len(IntToStr(t))) = t

\* whether the token sequence pat occurs in key at position p
MatchAt(key, pat, p) ==
    /\ p + Len(pat) - 1 <= Len(key)
    /\ \A j \in 1..Len(pat) : key[p + j - 1] = pat[j]

\* str.replace on token sequences: every non-overlapping occurrence of pat,
\* left to right, becomes rep
RECURSIVE ReplaceTokens(_, _, _)
ReplaceTokens(key, pat, rep) ==
    IF key = <<>> THEN <<>>
    ELSE IF MatchAt(key, pat, 1)
         THEN rep \o ReplaceTokens(SubSeq(key, Len(pat) + 1, Len(key)), pat, rep)
         ELSE <<Head(key)>> \o ReplaceTokens(Tail(key), pat, rep)

\* "tok in key" for a whole-token substring
Contains(key, tok) == \E p \in 1..Len(key) : key[p] = tok

---------------------------------------------------------------------------
(* Dicts: insertion-ordered sequences of <<key, value>> items with      *)
(* pairwise distinct keys                                                   *)

EmptyDict == <<>>

\* k in d
HasKey(d, k) == \E n \in 1..Len(d) : d[n][1] = k

\* d[k], for a key of d
GetItem(d, k) == d[CHOOSE n \in 1..Len(d) : d[n][1] = k][2]

\* d[k] = v: a new key is appended, a key already present keeps its place
\* and takes the new value
PutItem(d, k, v) ==
    IF HasKey(d, k)
    THEN [d EXCEPT ![CHOOSE n \in 1..Len(d) : d[n][1] = k] = <<k, v>>]
    ELSE Append(d, <<k, v>>)

---------------------------------------------------------------------------
(* Tensors *)

Vector(data) == [shape |-> <<Len(data)>>, data |-> data]
Matrix(rows, ncols) == [shape |-> <<Len(rows), ncols>>, data |-> rows]

Is1D(v) == Len(v.shape) = 1

ZeroRow(ncols) == [c \in 1..ncols |-> 0]

\* np.split(v, tp_size, axis)[idx] cannot be taken: the axis does not exist,
\* its length is not a multiple of tp_size, or idx is past the last section
NpSplitRaises(v, tp_size, idx, axis) ==
    \/ axis >= Len(v.shape)
    \/ v.shape[axis + 1] % tp_size # 0
    \/ idx >= tp_size

\* np.split(v, tp_size, axis)[idx]: the idx-th of tp_size equal sections
NpSplit(v, tp_size, idx, axis) ==
    LET n == v.shape[axis + 1] \div tp_size
    IN IF Is1D(v)
       THEN Vector(SubSeq(v.data, idx * n + 1, (idx + 1) * n))
       ELSE IF axis = 0
            THEN Matrix(SubSeq(v.data, idx * n + 1, (idx + 1) * n), v.shape[2])
            ELSE Matrix([r \in 1..v.shape[1] |->
                            SubSeq(v.data[r], idx * n + 1, (idx + 1) * n)], n)

\* np.concatenate(parts, axis) of a non-empty sequence of tensors
RECURSIVE NpConcatenate(_, _)
NpConcatenate(parts, axis) ==
    IF Len(parts) = 1 THEN parts[1]
    ELSE LET a == NpConcatenate(SubSeq(parts, 1, Len(parts) - 1), axis)
             b == parts[Len(parts)]
         IN IF Is1D(a) THEN Vector(a.data \o b.data)
            ELSE IF axis = 0
                 THEN Matrix(a.data \o b.data, a.shape[2])
                 ELSE Matrix([r \in 1..a.shape[1] |-> a.data[r] \o b.data[r]],
                             a.shape[2] + b.shape[2])

\* np.pad(v, ((0, pad_width), (0, 0)), "constant", constant_values=0)
NpPadRows(v, pad_width) ==
    Matrix(v.data \o [r \in 1..pad_width |-> ZeroRow(v.shape[2])], v.shape[2])

\* split(v, tp_size, idx, dim) raises instead of returning
SplitRaises(v, tp_size, idx, dim) ==
    /\ tp_size # 1
    /\ NpSplitRaises(v, tp_size, idx, IF Is1D(v) THEN 0 ELSE dim)

\* a splitter that returns section 0 whatever idx is
SplitWrongSection(v, tp_size, idx, dim) ==
    IF tp_size = 1 THEN v
    ELSE NpSplit(v, tp_size, 0, IF Is1D(v) THEN 0 ELSE dim)

\* split(v, tp_size, idx, dim); np.ascontiguousarray keeps the values
split(v, tp_size, idx, dim) ==
    IF tp_size = 1 THEN v
    ELSE IF Is1D(v) THEN NpSplit(v, tp_size, idx, 0)
         ELSE NpSplit(v, tp_size, idx, dim)

---------------------------------------------------------------------------
(* External collaborators of model_to_trtllm_ckpt *)

\* tensorrt_llm._utils.pad_vocab_size: vocab_size rounded up to a multiple
\* of tp_size
pad_vocab_size(vocab_size, tp_size) ==
    ((vocab_size + tp_size - 1) \div tp_size) * tp_size

\* tensorrt_llm.Mapping(world_size, rank, tp_size, pp_size)
Mapping(world_size, rank, tp_size, pp_size) ==
    [world_size |-> world_size, rank |-> rank,
     tp_size |-> tp_size, pp_size |-> pp_size,
     tp_rank |-> rank % tp_size, pp_rank |-> rank \div tp_size]

is_first_pp_rank(mapping) == mapping.pp_rank = 0
is_last_pp_rank(mapping) == mapping.pp_rank = mapping.pp_size - 1

\* mapping.pp_layers(n): the contiguous list of global layer indices of the
\* mapping's pp rank; the ranges partition 0..n-1 in pp rank order
pp_layers(mapping, n) ==
    LET base == n \div mapping.pp_size
        extra == n % mapping.pp_size
        p == mapping.pp_rank
        start == p * base + Min(p, extra)
        count == base + (IF p < extra THEN 1 ELSE 0)
    IN [j \in 1..count |-> start + j - 1]

\* "x in layers_range"
InList(x, list) == \E j \in 1..Len(list) : list[j] = x

---------------------------------------------------------------------------
(* The source mapping produced by convert_model_trt_llm_ckpt *)

VocabEmbeddingKey == <<"transformer", "vocab_embedding", "weight">>
PositionEmbeddingKey == <<"transformer", "position_embedding", "weight">>
LmHeadKey == <<"lm_head", "weight">>
LnFWeightKey == <<"transformer", "ln_f", "weight">>
LnFBiasKey == <<"transformer", "ln_f", "bias">>

\* pp_key of model_to_trtllm_ckpt
pp_key == {VocabEmbeddingKey, PositionEmbeddingKey, LmHeadKey,
           LnFWeightKey, LnFBiasKey}

\* hidden size and number of position rows of the modelled checkpoints
HiddenSize == 2
PositionRows == 2

\* a 2-D tensor with rows x HiddenSize entries, all non-zero and distinct
SourceMatrix(base, rows) ==
    Matrix([r \in 1..rows |-> [c \in 1..HiddenSize |-> base + 10 * r + c]],
           HiddenSize)

\* the 1-D tensor of one per-layer weight: its single entry names the key
LayerTensor(layer, kind, r) == Vector(<<1000 + 100 * layer + 10 * kind + r>>)

InputLayernormKey(layer) ==
    <<"transformer", "layers", IntToStr(layer), "input_layernorm", "weight">>
PostLayernormKey(layer) ==
    <<"transformer", "layers", IntToStr(layer), "post_layernorm", "weight">>
MlpLayernormKey(layer) ==
    <<"transformer", "layers", IntToStr(layer), "mlp_layernorm", "weight">>
QkvKey(layer, r) ==
    <<"transformer", "layers", IntToStr(layer), "attention", "qkv", "weight",
      IntToStr(r), "bin">>

\* the items of one layer: two replicated weights, and one qkv weight per
\* inference tp rank, already split by the converter
LayerItems(layer, tp_size) ==
    << <<InputLayernormKey(layer), LayerTensor(layer, 1, 0)>>,
       <<PostLayernormKey(layer), LayerTensor(layer, 2, 0)>> >>
    \o [r \in 1..tp_size |-> <<QkvKey(layer, r - 1), LayerTensor(layer, 3, r)>>]

RECURSIVE AllLayerItems(_, _)
AllLayerItems(order, tp_size) ==
    IF order = <<>> THEN <<>>
    ELSE LayerItems(Head(order), tp_size) \o AllLayerItems(Tail(order), tp_size)

\* the model-level items: the optional ones only when the checkpoint has them
ModelLevelItems(vocab_size, has_pos, has_bias) ==
    << <<VocabEmbeddingKey, SourceMatrix(100, vocab_size)>> >>
    \o (IF has_pos THEN << <<PositionEmbeddingKey, SourceMatrix(200, PositionRows)>> >>
        ELSE <<>>)
    \o << <<LmHeadKey, SourceMatrix(300, vocab_size)>>,
          <<LnFWeightKey, Vector([c \in 1..HiddenSize |-> 400 + c])>> >>
    \o (IF has_bias THEN << <<LnFBiasKey, Vector([c \in 1..HiddenSize |-> 500 + c])>> >>
        ELSE <<>>)

\* the converter's output; order is the order in which it emitted the layers
SourceMapping(order, tp_size, vocab_size, has_pos, has_bias) ==
    ModelLevelItems(vocab_size, has_pos, has_bias) \o AllLayerItems(order, tp_size)

\* the layer orders the model draws from: every permutation for the small
\* layer counts, ascending and descending for the large one
Ascending(n) == [j \in 1..n |-> j - 1]
Descending(n) == [j \in 1..n |-> n - j]
LayerOrders(n) ==
    IF n <= MaxLayers
    THEN {o \in [1..n -> 0..(n - 1)] : \A a, b \in 1..n : a # b => o[a] # o[b]}
    ELSE {Ascending(n), Descending(n)}

---------------------------------------------------------------------------
(* model_to_trtllm_ckpt *)

DECODER_MODEL_TYPE ==
    [gptj |-> "GPTForCausalLM", gptnext |-> "GPTForCausalLM",
     llama |-> "LLaMAForCausalLM", gemma |-> "GemmaForCausalLM",
     falcon |-> "FalconForCausalLM"]

\* lm_head_weight without the padding
PadLmHeadNoPad(src, tp_size) == GetItem(src, LmHeadKey)

\* lm_head_weight after lines 182-189
PadLmHead(src, tp_size) ==
    LET lm_head == GetItem(src, LmHeadKey)
        vocab_size == GetItem(src, VocabEmbeddingKey).shape[1]
        vocab_size_padded == pad_vocab_size(vocab_size, tp_size)
    IN IF vocab_size_padded # vocab_size
       THEN NpPadRows(lm_head, vocab_size_padded - vocab_size)
       ELSE lm_head

\* falcon entries that ignore the layer count
FalconConfigAlwaysNew(dtype, nl) ==
    IF dtype = "falcon"
    THEN [new_decoder_architecture |-> TRUE, parallel_attention |-> TRUE]
    ELSE <<>>

\* the falcon entries of config, lines 240-242
FalconConfig(dtype, nl) ==
    IF dtype = "falcon"
    THEN [new_decoder_architecture |->
              (IF nl = FalconOldArchLayers THEN FALSE ELSE TRUE),
          parallel_attention |-> TRUE]
    ELSE <<>>

\* the config dict (a function from entry names to values), restricted to the entries the resharding depends on
\* (the remaining entries are copies of nemo_model_config values)
BuildConfig(src, dtype, nl, tp_size, pp_size, upe) ==
    LET vocab_size == GetItem(src, VocabEmbeddingKey).shape[1]
        common == [architecture |-> DECODER_MODEL_TYPE[dtype],
                   num_hidden_layers |-> nl,
                   vocab_size |-> pad_vocab_size(vocab_size, tp_size),
                   use_parallel_embedding |-> upe,
                   world_size |-> tp_size * pp_size,
                   tp_size |-> tp_size,
                   pp_size |-> pp_size]
        extra == FalconConfig(dtype, nl)
    IN [f \in (DOMAIN common) \cup (DOMAIN extra) |->
            IF f \in DOMAIN extra THEN extra[f] ELSE common[f]]

\* config.get("new_decoder_architecture", False)
NewDecoderArchitecture(cfg) ==
    IF "new_decoder_architecture" \in DOMAIN cfg
    THEN cfg["new_decoder_architecture"] ELSE FALSE

\* the "TP split" step of the key rewriting
StripTpSuffix(key, tp_rank) ==
    IF Len(key) >= 2 /\ key[Len(key)] = "bin"
    THEN IF TokenEndsWithInt(key[Len(key) - 1], tp_rank)
         THEN <<Head(key)>>
              \o ReplaceTokens(Tail(key), <<IntToStr(tp_rank), "bin">>, <<>>)
         ELSE key
    ELSE key

\* the "PP" step of the key rewriting
LocalizeLayer(key, layers_range) ==
    IF Contains(key, "layers")
    THEN LET layer_num == StrToInt(key[3])
         IN IF InList(layer_num, layers_range)
            THEN ReplaceTokens(key, <<"layers", IntToStr(layer_num)>>,
                        <<"layers", IntToStr(layer_num - layers_range[1])>>)
            ELSE key
    ELSE key

\* the falcon renaming step of the key rewriting
RenamePostLayernorm(key, cfg) ==
    IF NewDecoderArchitecture(cfg) /\ Contains(key, "post_layernorm")
    THEN ReplaceTokens(key, <<"post_layernorm">>, <<"mlp_layernorm">>)
    ELSE key

\* new_key as it stands when the item is stored
RewriteKey(key, mapping, layers_range, cfg) ==
    RenamePostLayernorm(
        LocalizeLayer(StripTpSuffix(key, mapping.tp_rank), layers_range), cfg)

\* the stores "weights_dict_local[new_key] = v" made by the iterations of
\* "for k, v in weights_dict.items()" over the items lo..hi of the source
\* mapping, in iteration order: the items of pp_key store nothing ("continue"),
\* every other item stores its value under its rewritten key
RECURSIVE Stores(_, _, _, _, _, _)
Stores(src, lo, hi, mapping, layers_range, cfg) ==
    IF lo > hi THEN <<>>
    ELSE IF lo = hi
         THEN IF src[lo][1] \in pp_key THEN <<>>
              ELSE << <<RewriteKey(src[lo][1], mapping, layers_range, cfg),
                        src[lo][2]>> >>
         ELSE Stores(src, lo, (lo + hi) \div 2, mapping, layers_range, cfg)
              \o Stores(src, ((lo + hi) \div 2) + 1, hi, mapping, layers_range, cfg)

\* the dict left by a sequence of stores into an empty dict: a key sits
\* where it was first stored and holds the value stored under it last
DictOfStores(w) ==
    LET IsFirst(n) == \A m \in 1..(n - 1) : w[m][1] # w[n][1]
        LastOf(n) == CHOOSE m \in n..Len(w) :
                        /\ w[m][1] = w[n][1]
                        /\ \A m2 \in (m + 1)..Len(w) : w[m2][1] # w[n][1]
        firsts == SelectSeq([n \in 1..Len(w) |-> n], IsFirst)
    IN [j \in 1..Len(firsts) |-> <<w[firsts[j]][1], w[LastOf(firsts[j])][2]>>]

\* weights_dict_local after the generic pass, lines 260-274
CopyLayerWeights(src, mapping, layers_range, cfg) ==
    DictOfStores(Stores(src, 1, Len(src), mapping, layers_range, cfg))

\* an attachment that does not look at the pipeline stage
AttachFirstAlways(d, src, mapping, upe) ==
    PutItem(d, VocabEmbeddingKey, GetItem(src, VocabEmbeddingKey))

\* the weights attached on the first pipeline stage, lines 276-293
AttachFirst(d, src, mapping, upe) ==
    IF is_first_pp_rank(mapping)
    THEN LET emb == GetItem(src, VocabEmbeddingKey)
             d1 == PutItem(d, VocabEmbeddingKey,
                       IF upe THEN split(emb, mapping.tp_size, mapping.tp_rank, 0)
                       ELSE emb)
         IN IF HasKey(src, PositionEmbeddingKey)
            THEN LET pos == GetItem(src, PositionEmbeddingKey)
                 IN PutItem(d1, PositionEmbeddingKey,
                        IF upe THEN split(pos, mapping.tp_size, mapping.tp_rank, 0)
                        ELSE pos)
            ELSE d1
    ELSE d

\* the weights attached on the last pipeline stage
AttachLast(d, src, lm_head, mapping) ==
    IF is_last_pp_rank(mapping)
    THEN LET d1 == PutItem(d, LmHeadKey,
                       split(lm_head, mapping.tp_size, mapping.tp_rank, 0))
             d2 == PutItem(d1, LnFWeightKey, GetItem(src, LnFWeightKey))
         IN IF HasKey(src, LnFBiasKey)
            THEN PutItem(d2, LnFBiasKey, GetItem(src, LnFBiasKey))
            ELSE d2
    ELSE d

\* weights_dict_local of rank as it is appended to weights_dicts
RankWeights(src, lm_head, cfg, rank, nl, upe) ==
    LET mapping == Mapping(cfg.world_size, rank, cfg.tp_size, cfg.pp_size)
        layers_range == pp_layers(mapping, nl)
        local == CopyLayerWeights(src, mapping, layers_range, cfg)
    IN AttachLast(AttachFirst(local, src, mapping, upe), src, lm_head, mapping)

\* a split of the iteration for rank raises
RankRaises(src, lm_head, cfg, rank, upe) ==
    LET mapping == Mapping(cfg.world_size, rank, cfg.tp_size, cfg.pp_size)
    IN \/ /\ is_first_pp_rank(mapping)
          /\ upe
          /\ \/ SplitRaises(GetItem(src, VocabEmbeddingKey),
                            mapping.tp_size, mapping.tp_rank, 0)
             \/ /\ HasKey(src, PositionEmbeddingKey)
                /\ SplitRaises(GetItem(src, PositionEmbeddingKey),
                               mapping.tp_size, mapping.tp_rank, 0)
       \/ /\ is_last_pp_rank(mapping)
          /\ SplitRaises(lm_head, mapping.tp_size, mapping.tp_rank, 0)

\* model_config: PretrainedConfig(**config) with its mapping attached
RankConfig(cfg, rank) ==
    LET mapping == Mapping(cfg.world_size, rank, cfg.tp_size, cfg.pp_size)
    IN [f \in (DOMAIN cfg) \cup {"mapping"} |->
            IF f = "mapping" THEN mapping ELSE cfg[f]]

---------------------------------------------------------------------------
(* Values of the variables an operation does not use or has not yet set *)

NoTensor == Vector(<<>>)
IdleReshard ==
    /\ tensor_parallel_size = 1 /\ pipeline_parallel_size = 1
    /\ decoder_type = "gptnext" /\ use_parallel_embedding = FALSE
    /\ num_layers = 0 /\ weights_dict = <<>>
    /\ lm_head_weight = NoTensor /\ config = <<>> /\ i = 0
    /\ weights_dicts = <<>> /\ model_configs = <<>>
IdleSplit ==
    /\ sp_v = NoTensor /\ sp_tp_size = 1 /\ sp_dim = 0 /\ sp_parts = <<>>
IdleWords ==
    /\ word_dict = <<>> /\ flat_ids = <<>> /\ offsets = <<>> /\ wl_result = <<>>

---------------------------------------------------------------------------
(* model_to_trtllm_ckpt as a state machine: the statements before the loop, *)
(* one step per iteration of "for i in range(world_size)", the return       *)

\* the decoder_type arguments drawn: a tag whose architecture has no entries
\* of its own in config, falcon, and a tag DECODER_MODEL_TYPE does not know
DecoderTypes == {"llama", "falcon", "gpt2"}

LayerCounts == (1..MaxLayers) \cup {FalconOldArchLayers}

InitReshard ==
    /\ pc = "start"
    /\ tensor_parallel_size \in 1..MaxTp
    /\ pipeline_parallel_size \in 1..MaxPp
    /\ decoder_type \in DecoderTypes
    /\ use_parallel_embedding \in BOOLEAN
    /\ num_layers \in {n \in LayerCounts : n >= pipeline_parallel_size}
    /\ \E order \in LayerOrders(num_layers), vocab_size \in 1..MaxVocab,
          has_pos \in BOOLEAN, has_bias \in BOOLEAN :
            weights_dict = SourceMapping(order, tensor_parallel_size, vocab_size,
                                         has_pos, has_bias)
    /\ lm_head_weight = NoTensor
    /\ config = <<>>
    /\ i = 0
    /\ weights_dicts = <<>>
    /\ model_configs = <<>>
    /\ IdleSplit /\ IdleWords

\* lines 180-252, with a known decoder_type
Setup ==
    /\ pc = "start"
    /\ decoder_type \in DOMAIN DECODER_MODEL_TYPE
    /\ lm_head_weight' = PadLmHead(weights_dict, tensor_parallel_size)
    /\ config' = BuildConfig(weights_dict, decoder_type, num_layers,
                             tensor_parallel_size, pipeline_parallel_size,
                             use_parallel_embedding)
    /\ i' = 0
    /\ weights_dicts' = <<>>
    /\ model_configs' = <<>>
    /\ pc' = "loop"
    /\ UNCHANGED <<tensor_parallel_size, pipeline_parallel_size, decoder_type,
                   use_parallel_embedding, num_layers, weights_dict>>
    /\ UNCHANGED <<splitVars, wordVars>>

\* DECODER_MODEL_TYPE[decoder_type] raises KeyError
SetupRaises ==
    /\ pc = "start"
    /\ decoder_type \notin DOMAIN DECODER_MODEL_TYPE
    /\ pc' = "error"
    /\ UNCHANGED <<reshardVars, splitVars, wordVars>>

\* an iteration that stores the padded lm_head back into the source mapping
RankIterationWritesSource ==
    /\ pc = "loop"
    /\ i < config.world_size
    /\ ~RankRaises(weights_dict, lm_head_weight, config, i, use_parallel_embedding)
    /\ weights_dicts' = Append(weights_dicts,
            RankWeights(weights_dict, lm_head_weight, config, i, num_layers,
                        use_parallel_embedding))
    /\ model_configs' = Append(model_configs, RankConfig(config, i))
    /\ i' = i + 1
    /\ weights_dict' =
          [n \in 1..Len(weights_dict) |->
              IF weights_dict[n][1] = LmHeadKey
              THEN <<LmHeadKey, lm_head_weight>> ELSE weights_dict[n]]
    /\ UNCHANGED <<pc, tensor_parallel_size, pipeline_parallel_size, decoder_type,
                   use_parallel_embedding, num_layers,
                   lm_head_weight, config>>
    /\ UNCHANGED <<splitVars, wordVars>>

\* an iteration that puts its weight mapping in front of the earlier ones
RankIterationPrepends ==
    /\ pc = "loop"
    /\ i < config.world_size
    /\ ~RankRaises(weights_dict, lm_head_weight, config, i, use_parallel_embedding)
    /\ weights_dicts' = <<RankWeights(weights_dict, lm_head_weight, config, i,
                                      num_layers, use_parallel_embedding)>>
                        \o weights_dicts
    /\ model_configs' = Append(model_configs, RankConfig(config, i))
    /\ i' = i + 1
    /\ UNCHANGED <<pc, tensor_parallel_size, pipeline_parallel_size, decoder_type,
                   use_parallel_embedding, num_layers, weights_dict,
                   lm_head_weight, config>>
    /\ UNCHANGED <<splitVars, wordVars>>

\* one iteration of the loop over the ranks, lines 254-308
RankIteration ==
    /\ pc = "loop"
    /\ i < config.world_size
    /\ ~RankRaises(weights_dict, lm_head_weight, config, i, use_parallel_embedding)
    /\ weights_dicts' = Append(weights_dicts,
            RankWeights(weights_dict, lm_head_weight, config, i, num_layers,
                        use_parallel_embedding))
    /\ model_configs' = Append(model_configs, RankConfig(config, i))
    /\ i' = i + 1
    /\ UNCHANGED <<pc, tensor_parallel_size, pipeline_parallel_size, decoder_type,
                   use_parallel_embedding, num_layers, weights_dict,
                   lm_head_weight, config>>
    /\ UNCHANGED <<splitVars, wordVars>>

\* an iteration in which a split raises (np.split on an axis whose length is
\* not a multiple of tp_size): the call ends with the exception
RankIterationRaises ==
    /\ pc = "loop"
    /\ i < config.world_size
    /\ RankRaises(weights_dict, lm_head_weight, config, i, use_parallel_embedding)
    /\ pc' = "error"
    /\ UNCHANGED <<reshardVars, splitVars, wordVars>>

\* the loop is exhausted: return weights_dicts, model_configs
Return ==
    /\ pc = "loop"
    /\ i = config.world_size
    /\ pc' = "done"
    /\ UNCHANGED <<reshardVars, splitVars, wordVars>>

Next == Setup \/ SetupRaises \/ RankIteration \/ RankIterationRaises \/ Return

Spec == InitReshard /\ [][Next]_vars

---------------------------------------------------------------------------
(* split as a state machine: for one tensor, partition count and dim, the   *)
(* sections idx = 0, 1, ... are taken one call after the other              *)

MaxRows == 2        \* tensors have 0..MaxRows rows (or entries, when 1-D)
MaxCols == 2        \* 2-D tensors have 0..MaxCols columns

TensorEntries == {0, 1}

Tensors1D ==
    UNION {{Vector(d) : d \in [1..n -> TensorEntries]} : n \in 0..MaxRows}
Tensors2D ==
    UNION {{Matrix(rows, c) : rows \in [1..r -> [1..c -> TensorEntries]]} :
              r \in 0..MaxRows, c \in 0..MaxCols}

InitSplit ==
    /\ pc = "split"
    /\ (sp_v \in Tensors1D \/ sp_v \in Tensors2D)
    /\ sp_tp_size \in 1..MaxTp
    /\ sp_dim \in {0, 1}
    /\ sp_parts = <<>>
    /\ IdleReshard /\ IdleWords

\* split(sp_v, sp_tp_size, idx, sp_dim) for the next idx returns
SplitCall ==
    /\ pc = "split"
    /\ Len(sp_parts) < sp_tp_size
    /\ ~SplitRaises(sp_v, sp_tp_size, Len(sp_parts), sp_dim)
    /\ sp_parts' = Append(sp_parts, split(sp_v, sp_tp_size, Len(sp_parts), sp_dim))
    /\ UNCHANGED <<pc, sp_v, sp_tp_size, sp_dim, reshardVars, wordVars>>

\* the call raises: the split axis is not a multiple of sp_tp_size
SplitCallRaises ==
    /\ pc = "split"
    /\ Len(sp_parts) < sp_tp_size
    /\ SplitRaises(sp_v, sp_tp_size, Len(sp_parts), sp_dim)
    /\ pc' = "error"
    /\ UNCHANGED <<splitVars, reshardVars, wordVars>>

NextSplit == SplitCall \/ SplitCallRaises

SpecSplit == InitSplit /\ [][NextSplit]_vars

---------------------------------------------------------------------------
(* to_word_list_format as a state machine: one step per batch entry of the  *)
(* loop over word_dict, then the padding and stacking                       *)

MaxBatch == 2       \* word_dict has 0..MaxBatch entries
MaxWords == 2       \* an entry's string holds 0..MaxWords words

\* tokenizer.encode(ref_str)
ids_ref == <<8, 9>>

\* The words the entries are drawn from, each with what the tokenizer makes
\* of it: with_ref is encode(ref_str + word), alone is encode(word).
\*   "ab": two tokens after the reference prefix
\*   "":   nothing after the reference prefix (a word of zero tokens)
\*   "m":  merges with the prefix, so the prefix tokens do not reappear
WordTypes ==
    {[word |-> "ab", with_ref |-> <<8, 9, 1, 2>>, alone |-> <<1, 2>>],
     [word |-> "", with_ref |-> <<8, 9>>, alone |-> <<>>],
     [word |-> "m", with_ref |-> <<7>>, alone |-> <<3>>]}

\* an entry of word_dict after csv.reader: the list of its words
Entries == UNION {[1..n -> WordTypes] : n \in 0..MaxWords}

\* ids of one word, lines 130-138
WordIds(w) ==
    IF SubSeq(w.with_ref, 1, Min(Len(ids_ref), Len(w.with_ref))) = ids_ref
    THEN SubSeq(w.with_ref, Len(ids_ref) + 1, Len(w.with_ref))
    ELSE w.alone

\* item_flat_ids after the words 1..n of an entry
RECURSIVE ItemFlatIds(_, _)
ItemFlatIds(words, n) ==
    IF n = 0 THEN <<>>
    ELSE ItemFlatIds(words, n - 1) \o WordIds(words[n])

\* offsets that keep the words without tokens
ItemOffsetsKeepEmpty(words, n) ==
    [u \in 1..n |-> Len(WordIds(words[u]))]

\* item_offsets after the words 1..n of an entry: a word without tokens is
\* skipped ("continue")
RECURSIVE ItemOffsets(_, _)
ItemOffsets(words, n) ==
    IF n = 0 THEN <<>>
    ELSE IF Len(WordIds(words[n])) = 0 THEN ItemOffsets(words, n - 1)
         ELSE Append(ItemOffsets(words, n - 1), Len(WordIds(words[n])))

\* np.cumsum
RECURSIVE CumSum(_)
CumSum(a) ==
    IF a = <<>> THEN <<>>
    ELSE LET init == CumSum(SubSeq(a, 1, Len(a) - 1))
         IN Append(init, (IF init = <<>> THEN 0 ELSE init[Len(init)]) + a[Len(a)])

\* np.pad(a, (0, pad_to - len(a)), constant_values=c)
NpPad(a, pad_to, c) == a \o [p \in 1..(pad_to - Len(a)) |-> c]

\* max(len(ids) for ids in seqs), for a non-empty list
RECURSIVE MaxLen(_)
MaxLen(seqs) ==
    IF Len(seqs) = 1 THEN Len(seqs[1])
    ELSE Max(MaxLen(SubSeq(seqs, 1, Len(seqs) - 1)), Len(seqs[Len(seqs)]))

InitWords ==
    /\ pc = "words"
    /\ word_dict \in UNION {[1..b -> Entries] : b \in 0..MaxBatch}
    /\ flat_ids = <<>>
    /\ offsets = <<>>
    /\ wl_result = <<>>
    /\ IdleReshard /\ IdleSplit

\* one iteration of "for word_dict_item in word_dict", lines 121-147
EncodeItem ==
    /\ pc = "words"
    /\ Len(flat_ids) < Len(word_dict)
    /\ LET words == word_dict[Len(flat_ids) + 1]
       IN /\ flat_ids' = Append(flat_ids, ItemFlatIds(words, Len(words)))
          /\ offsets' = Append(offsets, CumSum(ItemOffsets(words, Len(words))))
    /\ UNCHANGED <<pc, word_dict, wl_result, reshardVars, splitVars>>

\* lines 149-155 for a non-empty batch: pad, stack and transpose to
\* (batch, 2, pad_to)
PadAndStack ==
    /\ pc = "words"
    /\ Len(flat_ids) = Len(word_dict)
    /\ Len(word_dict) > 0
    /\ LET pad_to == Max(1, MaxLen(flat_ids))
       IN wl_result' = [b \in 1..Len(flat_ids) |->
                           <<NpPad(flat_ids[b], pad_to, 0),
                             NpPad(offsets[b], pad_to, -1)>>]
    /\ pc' = "done"
    /\ UNCHANGED <<word_dict, flat_ids, offsets, reshardVars, splitVars>>

\* line 149 for an empty batch: max() of an empty sequence raises
PadRaises ==
    /\ pc = "words"
    /\ Len(word_dict) = 0
    /\ pc' = "error"
    /\ UNCHANGED <<wordVars, reshardVars, splitVars>>

NextWords == EncodeItem \/ PadAndStack \/ PadRaises

SpecWords == InitWords /\ [][NextWords]_vars

---------------------------------------------------------------------------
(* Vocabulary used by the properties of model_to_trtllm_ckpt *)

\* the positions of weights_dicts filled so far; position q holds rank q - 1
BuiltRanks == 1..Len(weights_dicts)

\* the positions a property looks at in a state: the one the last iteration
\* filled while the loop runs, all of them once the call has returned (the
\* loop only appends, so every position is looked at when it is filled and
\* again in the lists returned)
CheckedRanks ==
    IF pc = "done" THEN BuiltRanks
    ELSE IF pc = "loop" /\ Len(weights_dicts) > 0 THEN {Len(weights_dicts)}
    ELSE {}

MappingOf(q) ==
    Mapping(tensor_parallel_size * pipeline_parallel_size, q - 1,
            tensor_parallel_size, pipeline_parallel_size)

\* the source items that carry a layer index
LayerItemsOf(src) == {n \in 1..Len(src) : Contains(src[n][1], "layers")}

\* the global layer index written in a per-layer source key
GlobalLayer(key) == StrToInt(key[3])

\* the source key ends in ".<r>.bin", and r when it does
HasTpSuffix(key) ==
    Len(key) >= 2 /\ key[Len(key)] = "bin" /\ IsNumeral(key[Len(key) - 1])
TpSuffix(key) == StrToInt(key[Len(key) - 1])

\* some item of dict d holds the tensor v
HoldsValue(d, v) == \E m \in 1..Len(d) : d[m][2] = v

\* the key ends in ".bin"
EndsInBin(key) == Len(key) >= 2 /\ key[Len(key)] = "bin"

\* the source item n belongs to the rank at position q: its layer is in the
\* rank's pp range and its tp suffix, if any, is the rank's tp rank
OwnedBy(n, q) ==
    LET key == weights_dict[n][1]
    IN /\ InList(GlobalLayer(key), pp_layers(MappingOf(q), num_layers))
       /\ HasTpSuffix(key) => TpSuffix(key) = MappingOf(q).tp_rank

VocabSize == GetItem(weights_dict, VocabEmbeddingKey).shape[1]
VocabSizePadded == pad_vocab_size(VocabSize, tensor_parallel_size)

---------------------------------------------------------------------------
(* C1: for every rank and every source key with a layer index, a key whose  *)
(* global layer is outside the rank's pp layer range is skipped: no entry   *)
(* derived from it appears in the rank's output.  (The tensors of distinct  *)
(* source keys are distinct, so an entry derived from a key is an entry     *)
(* holding its tensor.)                                                     *)
C1_ForeignLayersSkipped ==
    \A q \in BuiltRanks : \A n \in LayerItemsOf(weights_dict) :
        ~InList(GlobalLayer(weights_dict[n][1]),
                pp_layers(MappingOf(q), num_layers))
        => ~HoldsValue(weights_dicts[q], weights_dict[n][2])

(* C2: for every rank with tp rank t, a source key ending in ".<r>.bin" is  *)
(* selected only when r = t: with r # t nothing derived from it appears in  *)
(* the rank's output, with r = t (and the layer owned) its tensor appears   *)
(* under a key without the suffix, and no output key ends in ".bin".        *)
C2_OnlyOwnTpKeysSelected ==
    \A q \in BuiltRanks :
        /\ \A n \in LayerItemsOf(weights_dict) :
              HasTpSuffix(weights_dict[n][1]) =>
                 IF TpSuffix(weights_dict[n][1]) = MappingOf(q).tp_rank
                 THEN OwnedBy(n, q) =>
                        \E m \in 1..Len(weights_dicts[q]) :
                            /\ weights_dicts[q][m][2] = weights_dict[n][2]
                            /\ ~EndsInBin(weights_dicts[q][m][1])
                 ELSE ~HoldsValue(weights_dicts[q], weights_dict[n][2])
        /\ \A m \in 1..Len(weights_dicts[q]) : ~EndsInBin(weights_dicts[q][m][1])

(* C3: a rank's output contains the vocabulary embedding (and the position  *)
(* embedding when the source has it) iff its pp_rank is 0, and lm_head and  *)
(* ln_f.weight (and ln_f.bias when the source has it) iff its pp_rank is    *)
(* pp_size - 1; with pp_size = 1 every rank receives both sets.             *)
C3_FirstLastExclusive ==
    \A q \in CheckedRanks :
        LET out == weights_dicts[q]
            first == model_configs[q].mapping.pp_rank = 0
            last == model_configs[q].mapping.pp_rank = pipeline_parallel_size - 1
        IN /\ HasKey(out, VocabEmbeddingKey) <=> first
           /\ HasKey(out, PositionEmbeddingKey)
                 <=> (first /\ HasKey(weights_dict, PositionEmbeddingKey))
           /\ HasKey(out, LmHeadKey) <=> last
           /\ HasKey(out, LnFWeightKey) <=> last
           /\ HasKey(out, LnFBiasKey) <=> (last /\ HasKey(weights_dict, LnFBiasKey))
           /\ pipeline_parallel_size = 1 =>
                 /\ HasKey(out, VocabEmbeddingKey)
                 /\ HasKey(out, LmHeadKey)
                 /\ HasKey(out, LnFWeightKey)

C3_Witness ==
    /\ pc = "done"
    /\ tensor_parallel_size = 2 /\ pipeline_parallel_size = 2
    /\ HasKey(weights_dict, PositionEmbeddingKey)
    /\ HasKey(weights_dict, LnFBiasKey)
    /\ HasKey(weights_dicts[1], PositionEmbeddingKey)
    /\ HasKey(weights_dicts[4], LnFBiasKey)

(* C4: the two lists grow together, the call returns them with length       *)
(* tp_size * pp_size, and position by position they belong to the same      *)
(* rank: model_configs[i].mapping is the Mapping of rank i and              *)
(* weights_dicts[i] is the weight mapping built for rank i.                 *)
C4_RankOutputsAligned ==
    /\ Len(weights_dicts) = Len(model_configs)
    /\ pc = "done" =>
          Len(weights_dicts) = tensor_parallel_size * pipeline_parallel_size
    /\ \A q \in CheckedRanks :
          /\ model_configs[q].mapping = MappingOf(q)
          /\ model_configs[q].mapping.rank = q - 1
          /\ weights_dicts[q] =
                RankWeights(weights_dict, lm_head_weight, config, q - 1,
                            num_layers, use_parallel_embedding)

C4_Witness ==
    /\ pc = "done"
    /\ tensor_parallel_size = 2 /\ pipeline_parallel_size = 2
    /\ Len(weights_dicts) = 4 /\ Len(model_configs) = 4

(* C6: when the padded vocabulary size exceeds the vocabulary size, the     *)
(* lm_head weight that is sliced to the last-stage ranks has                *)
(* vocab_size_padded rows, its first vocab_size rows are the source lm_head *)
(* rows, every further row is zero, each last-stage rank holds its tp       *)
(* rank's section of exactly these rows, and config's vocab_size is         *)
(* vocab_size_padded.                                                       *)
PaddedRow(g) ==
    IF g <= VocabSize THEN GetItem(weights_dict, LmHeadKey).data[g]
    ELSE ZeroRow(HiddenSize)

C6_LmHeadZeroPadded ==
    (pc \in {"loop", "done"} /\ VocabSizePadded > VocabSize) =>
        /\ lm_head_weight.shape = <<VocabSizePadded, HiddenSize>>
        /\ Len(lm_head_weight.data) = VocabSizePadded
        /\ \A g \in 1..VocabSizePadded : lm_head_weight.data[g] = PaddedRow(g)
        /\ config.vocab_size = VocabSizePadded
        /\ \A q \in CheckedRanks :
              model_configs[q].mapping.pp_rank = pipeline_parallel_size - 1 =>
                 LET part == GetItem(weights_dicts[q], LmHeadKey)
                     rows == VocabSizePadded \div tensor_parallel_size
                     t == model_configs[q].mapping.tp_rank
                 IN /\ part.shape = <<rows, HiddenSize>>
                    /\ \A g \in 1..rows : part.data[g] = PaddedRow(t * rows + g)
                    /\ model_configs[q].vocab_size = VocabSizePadded

C6_Witness ==
    /\ pc = "done"
    /\ VocabSize = 1 /\ tensor_parallel_size = 2
    /\ lm_head_weight.data[2] = ZeroRow(HiddenSize)
    /\ GetItem(weights_dicts[Len(weights_dicts)], LmHeadKey).data
          = <<ZeroRow(HiddenSize)>>

(* C7: for falcon, new_decoder_architecture is False exactly when           *)
(* num_layers is 32.  When it is True no output key of any rank contains    *)
(* post_layernorm, and every post_layernorm source key of a rank appears in *)
(* its output renamed to mlp_layernorm; when it is False, or the decoder is *)
(* not falcon, the post_layernorm keys keep their name.                     *)
C7_FalconRename ==
    pc \in {"loop", "done"} =>
        /\ decoder_type = "falcon" =>
              /\ "new_decoder_architecture" \in DOMAIN config
              /\ config["new_decoder_architecture"]
                    = (num_layers # FalconOldArchLayers)
        /\ decoder_type # "falcon" =>
              "new_decoder_architecture" \notin DOMAIN config
        /\ \A q \in CheckedRanks :
              LET out == weights_dicts[q]
                  start == pp_layers(MappingOf(q), num_layers)[1]
                  renamed == decoder_type = "falcon"
                                /\ num_layers # FalconOldArchLayers
              IN /\ renamed =>
                       \A m \in 1..Len(out) : ~Contains(out[m][1], "post_layernorm")
                 /\ ~renamed =>
                       \A m \in 1..Len(out) : ~Contains(out[m][1], "mlp_layernorm")
                 /\ \A n \in LayerItemsOf(weights_dict) :
                       (weights_dict[n][1] = PostLayernormKey(GlobalLayer(weights_dict[n][1]))
                          /\ OwnedBy(n, q)) =>
                          LET local == GlobalLayer(weights_dict[n][1]) - start
                          IN /\ renamed => HasKey(out, MlpLayernormKey(local))
                             /\ ~renamed => HasKey(out, PostLayernormKey(local))

C7_Witness ==
    /\ pc = "done"
    /\ decoder_type = "falcon" /\ num_layers = 2 /\ pipeline_parallel_size = 2
    /\ config["new_decoder_architecture"] = TRUE
    /\ HasKey(weights_dicts[2], MlpLayernormKey(0))
    /\ ~HasKey(weights_dicts[2], PostLayernormKey(0))

(* C8: the resharding loop never changes the shared source mapping, also    *)
(* when the vocabulary padding is applied, and an iteration leaves the      *)
(* per-rank mappings and configs of the earlier iterations as they were:    *)
(* it only appends its own.                                                 *)
C8_SourceNeverMutated ==
    [][pc = "loop" =>
          /\ weights_dict' = weights_dict
          /\ Len(weights_dicts') >= Len(weights_dicts)
          /\ SubSeq(weights_dicts', 1, Len(weights_dicts)) = weights_dicts
          /\ SubSeq(model_configs', 1, Len(model_configs)) = model_configs
          /\ lm_head_weight' = lm_head_weight /\ config' = config]_vars

C8_Witness ==
    /\ pc = "done"
    /\ Len(weights_dicts) >= 2
    /\ lm_head_weight # GetItem(weights_dict, LmHeadKey)
    /\ GetItem(weights_dict, LmHeadKey).shape[1] = VocabSize

(* C10: in every rank's output the per-layer key with local index j holds   *)
(* the source tensor of global layer start + j, and no two distinct source  *)
(* keys are written to the same output key of one rank, whatever the        *)
(* iteration order of the source mapping.                                   *)
C10_LocalIndexHoldsOwnLayer ==
    \A q \in BuiltRanks :
        LET mapping == MappingOf(q)
            layers_range == pp_layers(mapping, num_layers)
            new_key(n) == RewriteKey(weights_dict[n][1], mapping, layers_range, config)
        IN /\ \A n \in LayerItemsOf(weights_dict) :
                 OwnedBy(n, q) =>
                    /\ HasKey(weights_dicts[q], new_key(n))
                    /\ GetItem(weights_dicts[q], new_key(n)) = weights_dict[n][2]
           /\ Cardinality({new_key(n) : n \in LayerItemsOf(weights_dict)})
                 = Cardinality(LayerItemsOf(weights_dict))

---------------------------------------------------------------------------
(* C5: for T dividing the length of the split axis, concatenating           *)
(* split(v, T, i, dim) for i = 0..T-1 along the split axis gives v back,    *)
(* and split(v, 1, 0, dim) is v.                                            *)
SplitAxis == IF Is1D(sp_v) THEN 0 ELSE sp_dim

C5_SplitPartition ==
    pc = "split" =>
        /\ Len(sp_parts) = sp_tp_size => NpConcatenate(sp_parts, SplitAxis) = sp_v
        /\ (sp_tp_size = 1 /\ Len(sp_parts) = 1) => sp_parts[1] = sp_v

C5_Witness ==
    /\ pc = "split"
    /\ sp_tp_size = 2 /\ sp_dim = 1 /\ Len(sp_parts) = 2
    /\ ~Is1D(sp_v)
    /\ sp_v = Matrix(<< <<0, 1>>, <<1, 0>> >>, 2)
    /\ sp_parts[1] = Matrix(<< <<0>>, <<1>> >>, 1)
    /\ sp_parts[2] = Matrix(<< <<1>>, <<0>> >>, 1)

(* C9: for a batch of B >= 1 entries the result has shape (B, 2, max_ids)   *)
(* with max_ids = max(1, longest flattened id list); row 0 of an entry is   *)
(* the concatenated token ids of its words followed by 0s, row 1 is the     *)
(* cumulative token counts of the words that produced a token, one per such *)
(* word, followed by -1s.                                                   *)
RECURSIVE TokensUpTo(_, _)
TokensUpTo(words, u) ==
    IF u = 0 THEN 0 ELSE TokensUpTo(words, u - 1) + Len(WordIds(words[u]))

TotalTokens(words) == TokensUpTo(words, Len(words))

MaxIds ==
    LET S == {1} \cup {TotalTokens(word_dict[b]) : b \in 1..Len(word_dict)}
    IN CHOOSE x \in S : \A y \in S : y <= x

\* the p-th token of the entry, for p in 1..TotalTokens(words)
TokenAt(words, p) ==
    LET u == CHOOSE x \in 1..Len(words) :
                TokensUpTo(words, x - 1) < p /\ p <= TokensUpTo(words, x)
    IN WordIds(words[u])[p - TokensUpTo(words, u - 1)]

Productive(words) == {u \in 1..Len(words) : Len(WordIds(words[u])) > 0}

\* the cumulative count at the j-th word that produced a token
OffsetAt(words, j) ==
    LET u == CHOOSE x \in Productive(words) :
                Cardinality({y \in Productive(words) : y <= x}) = j
    IN TokensUpTo(words, u)

C9_WordListLayout ==
    pc = "done" =>
        /\ Len(wl_result) = Len(word_dict)
        /\ \A b \in 1..Len(word_dict) :
              LET words == word_dict[b]
              IN /\ Len(wl_result[b]) = 2
                 /\ Len(wl_result[b][1]) = MaxIds
                 /\ Len(wl_result[b][2]) = MaxIds
                 /\ \A p \in 1..MaxIds :
                       wl_result[b][1][p] =
                          IF p <= TotalTokens(words) THEN TokenAt(words, p) ELSE 0
                 /\ \A j \in 1..MaxIds :
                       wl_result[b][2][j] =
                          IF j <= Cardinality(Productive(words))
                          THEN OffsetAt(words, j) ELSE -1

C9_Witness ==
    /\ pc = "done"
    /\ Len(word_dict) = 2
    /\ Len(word_dict[1]) = 2
    /\ word_dict[1][1].word = "ab" /\ word_dict[1][2].word = ""
    /\ Len(word_dict[2]) = 1 /\ word_dict[2][1].word = "m"
    /\ wl_result = << << <<1, 2>>, <<2, -1>> >>, << <<3, 0>>, <<1, -1>> >> >>

=============================================================================
